---- MODULE Spec2Model ----
(***************************************************************************)
(* bevy_math 3D primitives (crates/bevy_math/src/primitives/dim3.rs).      *)
(*                                                                         *)
(* Every operation of the file is a pure function of f32 values.  f32 is   *)
(* modelled as a binary IEEE-754 format of reduced width: PrecBits         *)
(* significand bits and ExpMax+1 binades, with signed zeros, subnormals,   *)
(* infinities, NaN and round-to-nearest-even, so that rounding, overflow   *)
(* and underflow happen as they do in f32, only at smaller magnitudes.     *)
(* A finite value is sign * m / One, m a natural number of units of the    *)
(* smallest subnormal.                                                     *)
(***************************************************************************)
EXTENDS Integers, Naturals, Sequences, FiniteSets, TLC

(* ------------------------------ bounds --------------------------------- *)
PrecBits == 3
ExpMax == 5
MaxLen == 3
PolyN == 2

(* --------------------------- the float format -------------------------- *)
RECURSIVE Pow2(_)
Pow2(n) == IF n = 0 THEN 1 ELSE 2 * Pow2(n - 1)

One == Pow2(PrecBits + 1)
MaxMag == (Pow2(PrecBits) - 1) * Pow2(ExpMax)

RECURSIVE Ulp(_)
Ulp(q) == IF q < Pow2(PrecBits) THEN 1 ELSE 2 * Ulp(q \div 2)

Mags == {m \in 0..MaxMag : m % Ulp(m) = 0}

NaN == [k |-> "nan", s |-> 0, m |-> 0]
Inf(s) == [k |-> "inf", s |-> s, m |-> 0]
Fin(s, m) == [k |-> "fin", s |-> s, m |-> m]
INFINITY == Inf(0)
NEG_INFINITY == Inf(1)
F0 == Fin(0, 0)
F1 == Fin(0, One)
F2 == Fin(0, 2 * One)

F32 == {NaN} \cup {Inf(s) : s \in {0, 1}} \cup {Fin(s, m) : s \in {0, 1}, m \in Mags}

is_nan(a) == a.k = "nan"
is_finite(a) == a.k = "fin"
IsZero(a) == a.k = "fin" /\ a.m = 0
Xor(s, t) == (s + t) % 2

\* the value nearest to num/den units, ties to even, overflow to infinity
RoundMag(s, num, den) ==
  LET q == num \div den
      u == Ulp(q)
      lo == q - (q % u)
      hi == lo + u
      twice == 2 * (num - lo * den)
      r == IF twice < u * den THEN lo
           ELSE IF twice > u * den THEN hi
           ELSE IF (lo \div u) % 2 = 0 THEN lo ELSE hi
  IN IF r > MaxMag THEN Inf(s) ELSE Fin(s, r)

\* signed value of a finite float, in units
Val(a) == IF a.s = 1 THEN 0 - a.m ELSE a.m

Neg(a) == IF a.k = "nan" THEN NaN ELSE [a EXCEPT !.s = 1 - a.s]

Abs(a) == IF a.k = "nan" THEN NaN ELSE [a EXCEPT !.s = 0]

Add(a, b) ==
  IF a.k = "nan" \/ b.k = "nan" THEN NaN
  ELSE IF a.k = "inf" THEN (IF b.k = "inf" /\ b.s # a.s THEN NaN ELSE a)
  ELSE IF b.k = "inf" THEN b
  ELSE LET v == Val(a) + Val(b)
       IN IF v = 0 THEN Fin(IF a.s = 1 /\ b.s = 1 THEN 1 ELSE 0, 0)
          ELSE IF v < 0 THEN RoundMag(1, 0 - v, 1)
          ELSE RoundMag(0, v, 1)

Sub(a, b) == Add(a, Neg(b))

Mul(a, b) ==
  IF a.k = "nan" \/ b.k = "nan" THEN NaN
  ELSE IF a.k = "inf" \/ b.k = "inf"
       THEN (IF IsZero(a) \/ IsZero(b) THEN NaN ELSE Inf(Xor(a.s, b.s)))
  ELSE RoundMag(Xor(a.s, b.s), a.m * b.m, One)

Div(a, b) ==
  IF a.k = "nan" \/ b.k = "nan" THEN NaN
  ELSE IF a.k = "inf" THEN (IF b.k = "inf" THEN NaN ELSE Inf(Xor(a.s, b.s)))
  ELSE IF b.k = "inf" THEN Fin(Xor(a.s, b.s), 0)
  ELSE IF b.m = 0 THEN (IF a.m = 0 THEN NaN ELSE Inf(Xor(a.s, b.s)))
  ELSE RoundMag(Xor(a.s, b.s), a.m * One, b.m)

\* floor of the square root of a natural number
RECURSIVE ISqrt(_)
ISqrt(k) ==
  IF k = 0 THEN 0
  ELSE LET r == 2 * ISqrt(k \div 4)
       IN IF (r + 1) * (r + 1) <= k THEN r + 1 ELSE r

\* correctly rounded square root
Sqrt(a) ==
  IF a.k = "nan" THEN NaN
  ELSE IF IsZero(a) THEN a
  ELSE IF a.s = 1 THEN NaN
  ELSE IF a.k = "inf" THEN a
  ELSE LET k == a.m * One
           q == ISqrt(k)
           u == Ulp(q)
           lo == q - (q % u)
           hi == lo + u
           mid2 == (2 * lo + u) * (2 * lo + u)
       IN IF lo * lo = k THEN Fin(0, lo)
          ELSE IF 4 * k < mid2 THEN Fin(0, lo)
          ELSE IF 4 * k > mid2 THEN Fin(0, hi)
          ELSE IF (lo \div u) % 2 = 0 THEN Fin(0, lo) ELSE Fin(0, hi)

\* IEEE comparisons: false on NaN, -0 == +0
Lt(a, b) ==
  /\ a.k # "nan" /\ b.k # "nan"
  /\ IF a.k = "inf" THEN a.s = 1 /\ ~(b.k = "inf" /\ b.s = 1)
     ELSE IF b.k = "inf" THEN b.s = 0
     ELSE Val(a) < Val(b)

Eq(a, b) ==
  /\ a.k # "nan" /\ b.k # "nan"
  /\ IF a.k = "inf" \/ b.k = "inf" THEN a = b ELSE Val(a) = Val(b)

Le(a, b) == Lt(a, b) \/ Eq(a, b)
Gt(a, b) == Lt(b, a)

\* f32::max / f32::min: a NaN operand is ignored
FMax(a, b) == IF a.k = "nan" THEN b ELSE IF b.k = "nan" THEN a
              ELSE IF Lt(a, b) THEN b ELSE a

FMin(a, b) == IF a.k = "nan" THEN b ELSE IF b.k = "nan" THEN a
              ELSE IF Lt(b, a) THEN b ELSE a

(* ------------------------------- Vec3 ---------------------------------- *)
Vec3(x, y, z) == <<x, y, z>>
ZERO == Vec3(F0, F0, F0)
VAdd(a, b) == Vec3(Add(a[1], b[1]), Add(a[2], b[2]), Add(a[3], b[3]))
VSub(a, b) == Vec3(Sub(a[1], b[1]), Sub(a[2], b[2]), Sub(a[3], b[3]))
VMulS(a, f) == Vec3(Mul(a[1], f), Mul(a[2], f), Mul(a[3], f))
VDivS(a, f) == Vec3(Div(a[1], f), Div(a[2], f), Div(a[3], f))
VNeg(a) == Vec3(Neg(a[1]), Neg(a[2]), Neg(a[3]))
VMax(a, b) == Vec3(FMax(a[1], b[1]), FMax(a[2], b[2]), FMax(a[3], b[3]))
VMin(a, b) == Vec3(FMin(a[1], b[1]), FMin(a[2], b[2]), FMin(a[3], b[3]))
\* PartialEq of Vec3
VEq(a, b) == Eq(a[1], b[1]) /\ Eq(a[2], b[2]) /\ Eq(a[3], b[3])
length_squared(a) == Add(Add(Mul(a[1], a[1]), Mul(a[2], a[2])), Mul(a[3], a[3]))
length(a) == Sqrt(length_squared(a))
clamp(a, min, max) == VMin(VMax(a, min), max)

(* ---------------------------- Direction3d ------------------------------ *)
Ok(v) == [ok |-> TRUE, val |-> v]
Err(e) == [ok |-> FALSE, err |-> e]

\* InvalidDirectionError::from_length: Infinite for an infinite length, NaN for a
\* NaN length (as test::direction_creation requires), Zero otherwise
from_length(len) ==
  IF len.k = "inf" THEN "Infinite"
  ELSE IF is_nan(len) THEN "NaN"
  ELSE "Zero"

\* variant: the length is measured after the division
new_and_length_len_after(value) ==
  LET len == length(value)
  IN IF is_finite(len) /\ Gt(len, F0)
     THEN Ok([dir |-> VDivS(value, len), len |-> length(VDivS(value, len))])
     ELSE Err(from_length(len))

\* variant: the is_finite() test is missing
new_and_length_no_finite_test(value) ==
  LET len == length(value)
  IN IF Gt(len, F0)
     THEN Ok([dir |-> VDivS(value, len), len |-> len])
     ELSE Err(from_length(len))

new_and_length(value) ==
  LET len == length(value)
  IN IF is_finite(len) /\ Gt(len, F0)
     THEN Ok([dir |-> VDivS(value, len), len |-> len])
     ELSE Err(from_length(len))

new(value) ==
  LET r == new_and_length(value)
  IN IF r.ok THEN Ok(r.val.dir) ELSE r

from_xyz(x, y, z) == new(Vec3(x, y, z))

try_from(value) == new(value)

neg(dir) == VNeg(dir)

(* ------------------------------- Sphere -------------------------------- *)
Sphere_new(radius) == [radius |-> radius]

\* variant: < in place of <=
Sphere_closest_point_strict(self, point) ==
  LET distance_squared == length_squared(point)
  IN IF Lt(distance_squared, Mul(self.radius, self.radius))
     THEN point
     ELSE LET dir_to_point == VDivS(point, Sqrt(distance_squared))
          IN VMulS(dir_to_point, self.radius)

Sphere_closest_point(self, point) ==
  LET distance_squared == length_squared(point)
  IN IF Le(distance_squared, Mul(self.radius, self.radius))
     THEN point
     ELSE LET dir_to_point == VDivS(point, Sqrt(distance_squared))
          IN VMulS(dir_to_point, self.radius)

(* ------------------------------- Cuboid -------------------------------- *)
Cuboid_from_size(size) == [half_size |-> VDivS(size, F2)]

Cuboid_new(x_length, y_length, z_length) ==
  Cuboid_from_size(Vec3(x_length, y_length, z_length))

\* variant: the lower bound of the clamp is missing
Cuboid_closest_point_upper_only(self, point) ==
  VMin(point, self.half_size)

Cuboid_closest_point(self, point) ==
  clamp(point, VNeg(self.half_size), self.half_size)

(* ------------------------------ Segment3d ------------------------------ *)
\* Vec3::is_normalized, the condition of the debug_assert! in new_unchecked:
\* |length_squared - 1| <= 1e-4, the tolerance rounded into the format
NORMALIZED_TOLERANCE == RoundMag(0, One, 10000)
is_normalized(v) == Le(Abs(Sub(length_squared(v), F1)), NORMALIZED_TOLERANCE)

\* debug_assertions is the build: the assertion exists in debug builds only
new_unchecked(value, debug_assertions) ==
  [panicked |-> debug_assertions /\ ~is_normalized(value), val |-> value]

\* variant: the full length is stored
Segment3d_new_full_length(direction, len) ==
  [direction |-> direction, half_length |-> len]

Segment3d_new(direction, len) ==
  [direction |-> direction, half_length |-> Div(len, F2)]

from_points(point1, point2, debug_assertions) ==
  LET diff == VSub(point2, point1)
      len == length(diff)
      dir == new_unchecked(VDivS(diff, len), debug_assertions)
  IN IF dir.panicked
     THEN [panicked |-> TRUE]
     ELSE [panicked |-> FALSE,
           seg |-> Segment3d_new(dir.val, len),
           mid |-> VDivS(VAdd(point1, point2), F2)]

point1(self) == VMulS(self.direction, Neg(self.half_length))

point2(self) == VMulS(self.direction, self.half_length)

(* ----------------------- Polyline3d / BoxedPolyline3d ------------------ *)
Min(a, b) == IF a < b THEN a ELSE b
\* iter.take(n)
Take(s, n) == SubSeq(s, 1, Min(n, Len(s)))

\* for (index, i) in iter.into_iter().take(N).enumerate() { vertices[index] = i }
RECURSIVE Fill(_, _, _)
Fill(vertices, taken, index) ==
  IF index > Len(taken) THEN vertices
  ELSE Fill([vertices EXCEPT ![index] = taken[index]], taken, index + 1)

\* variant: take(N - 1)
Polyline3d_from_iter_short(iter, N) ==
  [vertices |-> Fill([i \in 1..N |-> ZERO], Take(iter, N - 1), 1)]

Polyline3d_from_iter(iter, N) ==
  [vertices |-> Fill([i \in 1..N |-> ZERO], Take(iter, N), 1)]

Polyline3d_new(vertices, N) == Polyline3d_from_iter(vertices, N)

BoxedPolyline3d_from_iter(iter) == [vertices |-> iter]

BoxedPolyline3d_new(vertices) == BoxedPolyline3d_from_iter(vertices)

(* -------------------------------- Torus -------------------------------- *)
\* variant: major_radius = outer_radius + minor_radius
Torus_new_plus(inner_radius, outer_radius) ==
  LET minor_radius == Div(Sub(outer_radius, inner_radius), F2)
      major_radius == Add(outer_radius, minor_radius)
  IN [minor_radius |-> minor_radius, major_radius |-> major_radius]

Torus_new(inner_radius, outer_radius) ==
  LET minor_radius == Div(Sub(outer_radius, inner_radius), F2)
      major_radius == Sub(outer_radius, minor_radius)
  IN [minor_radius |-> minor_radius, major_radius |-> major_radius]

\* variant: minor_radius - major_radius
inner_radius_swapped(self) == Sub(self.minor_radius, self.major_radius)

inner_radius(self) == Sub(self.major_radius, self.minor_radius)

outer_radius(self) == Add(self.major_radius, self.minor_radius)

\* variant: minor_radius < 0.0 in place of <= 0.0
kind_zero_minor(self) ==
  IF \/ Lt(self.minor_radius, F0)
     \/ ~is_finite(self.minor_radius)
     \/ Le(self.major_radius, F0)
     \/ ~is_finite(self.major_radius)
  THEN "Invalid"
  ELSE IF is_nan(self.major_radius) \/ is_nan(self.minor_radius) THEN "panic"
  ELSE IF Gt(self.major_radius, self.minor_radius) THEN "Ring"
  ELSE IF Eq(self.major_radius, self.minor_radius) THEN "Horn"
  ELSE "Spindle"

\* partial_cmp(..).unwrap() panics on None, that is when an operand is NaN
kind(self) ==
  IF \/ Le(self.minor_radius, F0)
     \/ ~is_finite(self.minor_radius)
     \/ Le(self.major_radius, F0)
     \/ ~is_finite(self.major_radius)
  THEN "Invalid"
  ELSE IF is_nan(self.major_radius) \/ is_nan(self.minor_radius) THEN "panic"
  ELSE IF Gt(self.major_radius, self.minor_radius) THEN "Ring"
  ELSE IF Eq(self.major_radius, self.minor_radius) THEN "Horn"
  ELSE "Spindle"

(* ------------------------------ inputs --------------------------------- *)
SampleMags == {0, 1, 3, One \div 2, One, (3 * One) \div 2, 2 * One, MaxMag}
Coarse == {NaN, INFINITY, NEG_INFINITY} \cup {Fin(s, m) : s \in {0, 1}, m \in SampleMags}
Few == {F0, Fin(1, One), Fin(0, 3), NaN}
Pairs == {<<F0, F0>>, <<Fin(1, One), Fin(0, 3)>>, <<Fin(0, One \div 2), Fin(1, 0)>>}
Points == {Vec3(x, yz[1], yz[2]) : x \in F32, yz \in Pairs}

VARIABLES call, in, out
vars == <<call, in, out>>

(* ----------------------- Direction3d operations ------------------------ *)
InitDirection ==
  /\ call = "none"
  /\ in \in {[value |-> Vec3(x, y, z)] : x \in F32, y \in Coarse, z \in Few}
  /\ out = <<>>

DirectionNew ==
  /\ call = "none"
  /\ call' = "new"
  /\ out' = new(in.value)
  /\ UNCHANGED in

DirectionNewAndLength ==
  /\ call = "none"
  /\ call' = "new_and_length"
  /\ out' = new_and_length(in.value)
  /\ UNCHANGED in

DirectionFromXyz ==
  /\ call = "none"
  /\ call' = "from_xyz"
  /\ out' = from_xyz(in.value[1], in.value[2], in.value[3])
  /\ UNCHANGED in

DirectionTryFrom ==
  /\ call = "none"
  /\ call' = "try_from"
  /\ out' = try_from(in.value)
  /\ UNCHANGED in

\* -dir on a direction obtained from new
DirectionNeg ==
  /\ call = "new" /\ out.ok
  /\ call' = "neg"
  /\ out' = Ok(neg(out.val))
  /\ UNCHANGED in

NextDirection ==
  \/ DirectionNew
  \/ DirectionNewAndLength
  \/ DirectionFromXyz
  \/ DirectionTryFrom
  \/ DirectionNeg

SpecDirection == InitDirection /\ [][NextDirection]_vars

HasNaN(v) == \E i \in 1..3 : is_nan(v[i])
HasInf(v) == \E i \in 1..3 : v[i].k = "inf"
AllFinite(v) == \A i \in 1..3 : is_finite(v[i])
IsZeroVec(v) == \A i \in 1..3 : IsZero(v[i])
LengthOk(v) == is_finite(length(v)) /\ Gt(length(v), F0)
SameSign(a, b) == \A i \in 1..3 : a[i].s = b[i].s

\* C1 as stated: every finite nonzero vector yields a direction of length
\* exactly 1 together with the pre-division length.
C1_AsStated ==
  (call \in {"new", "new_and_length"} /\ AllFinite(in.value) /\ ~IsZeroVec(in.value))
    => /\ out.ok
       /\ LET dir == IF call = "new" THEN out.val ELSE out.val.dir
          IN Eq(length(dir), F1)

\* C1 (amended): whenever the computed length of v is finite and strictly
\* positive, new and new_and_length succeed, the direction is v divided
\* componentwise by that length (finite, each component keeping the sign of
\* the component of v), the returned length is the length of v computed
\* before the division, and new returns the direction of new_and_length.
C1_DirectionIsValueOverLength ==
  (call \in {"new", "new_and_length"} /\ LengthOk(in.value))
    => /\ out.ok
       /\ LET dir == IF call = "new" THEN out.val ELSE out.val.dir
          IN /\ dir = VDivS(in.value, Sqrt(length_squared(in.value)))
             /\ AllFinite(dir)
             /\ SameSign(dir, in.value)
             /\ call = "new" => dir = new_and_length(in.value).val.dir
       /\ call = "new_and_length" => out.val.len = Sqrt(length_squared(in.value))

C1_Witness ==
  /\ call = "new_and_length"
  /\ LengthOk(in.value)
  /\ out.ok
  /\ ~Eq(out.val.len, F1)
  /\ \E i \in 1..3, j \in 1..3 : i # j /\ ~IsZero(in.value[i]) /\ ~IsZero(in.value[j])

\* C2 as stated: an error exactly when the length is not finite and positive;
\* Zero for the zero vector, Infinite for any vector with an infinite
\* component, NaN for any vector with a NaN component.
C2_AsStated ==
  (call \in {"new", "from_xyz", "try_from"})
    => /\ out.ok <=> LengthOk(in.value)
       /\ IsZeroVec(in.value) => (~out.ok /\ out.err = "Zero")
       /\ HasInf(in.value) => (~out.ok /\ out.err = "Infinite")
       /\ HasNaN(in.value) => (~out.ok /\ out.err = "NaN")

\* C2 (amended): new, from_xyz and try_from return an error exactly when the
\* computed length is not both finite and strictly positive; the error is Zero
\* for the zero vector, NaN for a vector with a NaN component, and Infinite
\* for a vector with an infinite component and no NaN component.
C2_ErrorKinds ==
  (call \in {"new", "from_xyz", "try_from"})
    => /\ out.ok <=> LengthOk(in.value)
       /\ IsZeroVec(in.value) => (~out.ok /\ out.err = "Zero")
       /\ (HasInf(in.value) /\ ~HasNaN(in.value)) => (~out.ok /\ out.err = "Infinite")
       /\ HasNaN(in.value) => (~out.ok /\ out.err = "NaN")

C2_Witness ==
  /\ call = "from_xyz"
  /\ HasInf(in.value) /\ ~HasNaN(in.value)
  /\ ~out.ok /\ out.err = "Infinite"

(* --------------------------- Sphere operations ------------------------- *)
InitSphere ==
  /\ call = "none"
  /\ in \in {[radius |-> r, point |-> q] : r \in F32, q \in Points}
  /\ out = <<>>

SphereNew ==
  /\ call = "none"
  /\ call' = "Sphere::new"
  /\ out' = [self |-> Sphere_new(in.radius)]
  /\ UNCHANGED in

SphereClosestPoint ==
  /\ call = "Sphere::new"
  /\ call' = "Sphere::closest_point"
  /\ out' = [self |-> out.self, closest |-> Sphere_closest_point(out.self, in.point)]
  /\ UNCHANGED in

NextSphere ==
  \/ SphereNew
  \/ SphereClosestPoint

SpecSphere == InitSphere /\ [][NextSphere]_vars

\* exact (real-number) squared length of a finite vector, in squared units
ExactLen2(v) == v[1].m * v[1].m + v[2].m * v[2].m + v[3].m * v[3].m
\* a is t * b for some real t >= 0 (finite vectors)
NonNegMultiple(a, b) ==
  /\ \A i \in 1..3, j \in 1..3 : Val(a[i]) * Val(b[j]) = Val(a[j]) * Val(b[i])
  /\ \A i \in 1..3 : Val(a[i]) * Val(b[i]) >= 0
  /\ \A i \in 1..3 : b[i].m = 0 => a[i].m = 0
\* |p| <= r over the reals
ExactInside(point, r) == r.s = 0 /\ ExactLen2(point) <= r.m * r.m

\* C3 as stated: inside or on the sphere the point is returned unchanged,
\* otherwise the result has length exactly r and is a non-negative multiple of p.
C3_AsStated ==
  (call = "Sphere::closest_point" /\ is_finite(in.radius) /\ AllFinite(in.point))
    => IF ExactInside(in.point, in.radius)
       THEN VEq(out.closest, in.point)
       ELSE /\ AllFinite(out.closest)
            /\ in.radius.s = 0 /\ ExactLen2(out.closest) = in.radius.m * in.radius.m
            /\ NonNegMultiple(out.closest, in.point)

\* C3 (amended): the point is returned unchanged exactly when its computed
\* squared length is <= the computed radius squared; otherwise the result is
\* radius * (p / sqrt(length_squared(p))), which for a finite radius >= 0 and a
\* finite point has no NaN component and keeps the sign of every component of p.
C3_ClosestPoint ==
  (call = "Sphere::closest_point")
    => LET d2 == length_squared(in.point)
           r2 == Mul(in.radius, in.radius)
       IN IF Le(d2, r2)
          THEN out.closest = in.point
          ELSE /\ out.closest = VMulS(VDivS(in.point, Sqrt(d2)), in.radius)
               /\ (is_finite(in.radius) /\ in.radius.s = 0 /\ AllFinite(in.point))
                    => (~HasNaN(out.closest) /\ SameSign(out.closest, in.point))

C3_Witness ==
  /\ call = "Sphere::closest_point"
  /\ is_finite(in.radius) /\ in.radius.m > 0 /\ in.radius.s = 0
  /\ AllFinite(in.point) /\ ~IsZero(in.point[1]) /\ ~IsZero(in.point[2])
  /\ ~Le(length_squared(in.point), Mul(in.radius, in.radius))
  /\ AllFinite(out.closest) /\ ~IsZero(out.closest[1]) /\ ~IsZero(out.closest[2])

(* --------------------------- Cuboid operations ------------------------- *)
InitCuboid ==
  /\ call = "none"
  /\ in \in {[size |-> Vec3(a, bc[1], bc[2]), point |-> q] :
               a \in Coarse, bc \in {<<F2, F2>>, <<F1, Fin(0, 3)>>},
               q \in {Vec3(x, yz[1], yz[2]) : x \in F32,
                        yz \in {<<F0, F0>>, <<Fin(1, MaxMag), Fin(0, 1)>>}}}
  /\ out = <<>>

CuboidNew ==
  /\ call = "none"
  /\ call' = "Cuboid::new"
  /\ out' = [self |-> Cuboid_new(in.size[1], in.size[2], in.size[3])]
  /\ UNCHANGED in

CuboidFromSize ==
  /\ call = "none"
  /\ call' = "Cuboid::from_size"
  /\ out' = [self |-> Cuboid_from_size(in.size)]
  /\ UNCHANGED in

CuboidClosestPoint ==
  /\ call \in {"Cuboid::new", "Cuboid::from_size"}
  /\ call' = "Cuboid::closest_point"
  /\ out' = [self |-> out.self, closest |-> Cuboid_closest_point(out.self, in.point)]
  /\ UNCHANGED in

\* closest_point applied to its own result
CuboidClosestPointAgain ==
  /\ call = "Cuboid::closest_point"
  /\ call' = "Cuboid::closest_point twice"
  /\ out' = [out EXCEPT !.closest = Cuboid_closest_point(out.self, out.closest)]
  /\ UNCHANGED in

NextCuboid ==
  \/ CuboidNew
  \/ CuboidFromSize
  \/ CuboidClosestPoint
  \/ CuboidClosestPointAgain

SpecCuboid == InitCuboid /\ [][NextCuboid]_vars

\* x clamped to [-h, h], for h >= 0
ClampTo(x, h) == IF Lt(x, Neg(h)) THEN Neg(h) ELSE IF Gt(x, h) THEN h ELSE x
\* a box (non-negative full size) and a point (no NaN coordinate)
BoxAndPoint == /\ \A i \in 1..3 : Le(F0, in.size[i])
               /\ ~HasNaN(in.point)
InsideBox(q, h) == \A i \in 1..3 : Le(Neg(h[i]), q[i]) /\ Le(q[i], h[i])
OnSurface(q, h) == InsideBox(q, h) /\ \E i \in 1..3 : Eq(Abs(q[i]), h[i])

\* C4: for a cuboid of non-negative size and a point, closest_point is the
\* coordinatewise clamp of the point to [-half_size, +half_size], half_size being
\* half the full size; an inside point is unchanged, an outside point lands on
\* the surface, and a second application changes nothing.
C4_ClosestPointIsClamp ==
  /\ (call \in {"Cuboid::new", "Cuboid::from_size"})
       => \A i \in 1..3 : out.self.half_size[i] = Div(in.size[i], F2)
  /\ (call = "Cuboid::closest_point" /\ BoxAndPoint)
       => LET h == out.self.half_size
          IN /\ \A i \in 1..3 : Eq(out.closest[i], ClampTo(in.point[i], h[i]))
             /\ InsideBox(in.point, h) => VEq(out.closest, in.point)
             /\ ~InsideBox(in.point, h) => OnSurface(out.closest, h)
  /\ (call = "Cuboid::closest_point twice" /\ BoxAndPoint)
       => VEq(out.closest, Cuboid_closest_point(out.self, in.point))

C4_Witness ==
  /\ call = "Cuboid::closest_point twice"
  /\ BoxAndPoint
  /\ ~InsideBox(in.point, out.self.half_size)
  /\ \E i \in 1..3 : Lt(Neg(out.self.half_size[i]), in.point[i])
                     /\ Lt(in.point[i], out.self.half_size[i])
  /\ \E i \in 1..3 : Lt(in.point[i], Neg(out.self.half_size[i]))

(* -------------------------- Segment3d operations ----------------------- *)
InitSegment ==
  /\ call = "none"
  /\ in \in {[point1 |-> Vec3(x1, a[1], a[2]), point2 |-> Vec3(x2, b[1], b[2]),
              debug_assertions |-> d] :
               x1 \in F32, x2 \in Coarse, d \in BOOLEAN,
               a \in {<<F0, F0>>, <<Fin(1, One), Fin(0, 3)>>},
               b \in {<<F0, F0>>, <<Fin(1, One), Fin(0, 3)>>}}
  /\ out = <<>>

SegmentFromPoints ==
  /\ call = "none"
  /\ call' = "from_points"
  /\ out' = from_points(in.point1, in.point2, in.debug_assertions)
  /\ UNCHANGED in

SegmentPoint1 ==
  /\ call = "from_points" /\ ~out.panicked
  /\ call' = "point1"
  /\ out' = [panicked |-> FALSE, seg |-> out.seg, mid |-> out.mid,
             point |-> point1(out.seg)]
  /\ UNCHANGED in

SegmentPoint2 ==
  /\ call = "from_points" /\ ~out.panicked
  /\ call' = "point2"
  /\ out' = [panicked |-> FALSE, seg |-> out.seg, mid |-> out.mid,
             point |-> point2(out.seg)]
  /\ UNCHANGED in

NextSegment ==
  \/ SegmentFromPoints
  \/ SegmentPoint1
  \/ SegmentPoint2

SpecSegment == InitSegment /\ [][NextSegment]_vars

Displacement == VSub(in.point2, in.point1)

\* C5 as stated: for p1 # p2 the returned midpoint plus point1() / point2()
\* gives back p1 / p2 (here only for points whose computed distance is finite
\* and strictly positive, so that the direction is a quotient of finite numbers).
C5_AsStated ==
  /\ (call = "point1" /\ ~VEq(in.point1, in.point2) /\ LengthOk(Displacement))
       => VEq(VAdd(out.mid, out.point), in.point1)
  /\ (call = "point2" /\ ~VEq(in.point1, in.point2) /\ LengthOk(Displacement))
       => VEq(VAdd(out.mid, out.point), in.point2)

\* C5 (amended): whenever from_points returns and the computed distance between
\* the two points is finite and strictly positive, mid is the computed
\* (p1 + p2) / 2, half_length is half the computed distance, the direction is the
\* displacement divided by the distance, and point1() is the exact negation of
\* point2(), both without NaN components.
C5_SegmentFromPoints ==
  (call \in {"from_points", "point1", "point2"} /\ ~out.panicked /\ LengthOk(Displacement))
    => /\ out.mid = VDivS(VAdd(in.point1, in.point2), F2)
       /\ out.seg.half_length = Div(Sqrt(length_squared(Displacement)), F2)
       /\ out.seg.direction = VDivS(Displacement, Sqrt(length_squared(Displacement)))
       /\ call = "point1" =>
            /\ ~HasNaN(out.point)
            /\ out.point = VNeg(point2(out.seg))
            /\ SameSign(out.point, VNeg(Displacement))
       /\ call = "point2" =>
            /\ ~HasNaN(out.point)
            /\ out.point = VNeg(point1(out.seg))
            /\ SameSign(out.point, Displacement)

C5_Witness ==
  /\ call = "point1"
  /\ LengthOk(Displacement)
  /\ ~IsZero(out.point[1]) /\ ~IsZero(out.point[2]) /\ ~IsZero(out.point[3])
  /\ ~VEq(VAdd(out.mid, out.point), in.point1)

\* C6: from_points panics whenever point1 == point2 (finite points), and so
\* never returns a segment whose direction is not a unit vector.
C6_PanicsOnEqualPoints ==
  (call = "from_points" /\ AllFinite(in.point1) /\ VEq(in.point1, in.point2))
    => out.panicked

(* --------------------------- Polyline operations ----------------------- *)
PolyPoints == {ZERO, Vec3(F1, F0, F0), Vec3(F0, F1, F0), Vec3(Fin(1, One), F2, NaN)}
RECURSIVE SeqsUpTo(_)
SeqsUpTo(n) ==
  IF n = 0 THEN {<<>>}
  ELSE LET shorter == SeqsUpTo(n - 1)
       IN shorter \cup {Append(s, q) : s \in {t \in shorter : Len(t) = n - 1}, q \in PolyPoints}

InitPolyline ==
  /\ call = "none"
  /\ in \in {[points |-> s] : s \in SeqsUpTo(MaxLen)}
  /\ out = <<>>

PolylineNew ==
  /\ call = "none"
  /\ call' = "Polyline3d::new"
  /\ out' = Polyline3d_new(in.points, PolyN)
  /\ UNCHANGED in

PolylineFromIter ==
  /\ call = "none"
  /\ call' = "Polyline3d::from_iter"
  /\ out' = Polyline3d_from_iter(in.points, PolyN)
  /\ UNCHANGED in

BoxedPolylineNew ==
  /\ call = "none"
  /\ call' = "BoxedPolyline3d::new"
  /\ out' = BoxedPolyline3d_new(in.points)
  /\ UNCHANGED in

BoxedPolylineFromIter ==
  /\ call = "none"
  /\ call' = "BoxedPolyline3d::from_iter"
  /\ out' = BoxedPolyline3d_from_iter(in.points)
  /\ UNCHANGED in

NextPolyline ==
  \/ PolylineNew
  \/ PolylineFromIter
  \/ BoxedPolylineNew
  \/ BoxedPolylineFromIter

SpecPolyline == InitPolyline /\ [][NextPolyline]_vars

\* C9: Polyline3d<N>::new(s) has exactly N vertices, the first min(N, len(s)) of
\* them the points of s in order and the rest the zero vector;
\* BoxedPolyline3d::new(s) has exactly the points of s in order.
C9_PolylineVertices ==
  /\ (call = "Polyline3d::new")
       => /\ DOMAIN out.vertices = 1..PolyN
          /\ \A i \in 1..PolyN :
               out.vertices[i] = IF i <= Len(in.points) THEN in.points[i] ELSE ZERO
  /\ (call = "BoxedPolyline3d::new")
       => /\ Len(out.vertices) = Len(in.points)
          /\ \A i \in 1..Len(in.points) : out.vertices[i] = in.points[i]

C9_Witness ==
  /\ call = "Polyline3d::new"
  /\ Len(in.points) > PolyN
  /\ in.points[PolyN + 1] # ZERO
  /\ \A i \in 1..PolyN : in.points[i] # ZERO

(* ---------------------------- Torus operations ------------------------- *)
InitTorus ==
  /\ call = "none"
  /\ in \in {[a |-> a, b |-> b] : a \in F32, b \in F32}
  /\ out = <<>>

\* Torus::new(inner_radius = a, outer_radius = b)
TorusNew ==
  /\ call = "none"
  /\ call' = "Torus::new"
  /\ out' = [via |-> "new", self |-> Torus_new(in.a, in.b)]
  /\ UNCHANGED in

\* Torus { minor_radius: a, major_radius: b }, the fields being public
TorusLiteral ==
  /\ call = "none"
  /\ call' = "Torus {..}"
  /\ out' = [via |-> "literal", self |-> [minor_radius |-> in.a, major_radius |-> in.b]]
  /\ UNCHANGED in

TorusKind ==
  /\ call \in {"Torus::new", "Torus {..}"}
  /\ call' = "kind"
  /\ out' = [via |-> out.via, self |-> out.self, ret |-> kind(out.self)]
  /\ UNCHANGED in

TorusInnerRadius ==
  /\ call = "Torus::new"
  /\ call' = "inner_radius"
  /\ out' = [via |-> out.via, self |-> out.self, ret |-> inner_radius(out.self)]
  /\ UNCHANGED in

TorusOuterRadius ==
  /\ call = "Torus::new"
  /\ call' = "outer_radius"
  /\ out' = [via |-> out.via, self |-> out.self, ret |-> outer_radius(out.self)]
  /\ UNCHANGED in

NextTorus ==
  \/ TorusNew
  \/ TorusLiteral
  \/ TorusKind
  \/ TorusInnerRadius
  \/ TorusOuterRadius

SpecTorus == InitTorus /\ [][NextTorus]_vars

NonPositiveOrNonFinite(x) == ~is_finite(x) \/ Val(x) <= 0

\* C7: kind never panics; it is Invalid iff a radius is non-positive, infinite
\* or NaN, otherwise Ring / Horn / Spindle as major is >, ==, < minor.
C7_KindClassification ==
  (call = "kind")
    => LET minor == out.self.minor_radius
           major == out.self.major_radius
       IN /\ out.ret \in {"Invalid", "Ring", "Horn", "Spindle"}
          /\ out.ret = "Invalid" <=>
               (NonPositiveOrNonFinite(minor) \/ NonPositiveOrNonFinite(major))
          /\ out.ret = "Ring" <=>
               (~NonPositiveOrNonFinite(minor) /\ ~NonPositiveOrNonFinite(major)
                  /\ Val(major) > Val(minor))
          /\ out.ret = "Horn" <=>
               (~NonPositiveOrNonFinite(minor) /\ ~NonPositiveOrNonFinite(major)
                  /\ Val(major) = Val(minor))
          /\ out.ret = "Spindle" <=>
               (~NonPositiveOrNonFinite(minor) /\ ~NonPositiveOrNonFinite(major)
                  /\ Val(major) < Val(minor))

C7_Witness ==
  /\ call = "kind" /\ out.via = "literal"
  /\ out.ret = "Spindle"
  /\ out.self.major_radius.m < One

\* C8 as stated: Torus::new(0, 2).kind() is Ring, and Torus::new(inner,
\* outer).kind() is Invalid whenever inner == outer or inner > outer.
C8_AsStated ==
  (call = "kind" /\ out.via = "new")
    => /\ (Eq(in.a, F0) /\ Eq(in.b, F2)) => out.ret = "Ring"
       /\ (Eq(in.a, in.b) \/ Gt(in.a, in.b)) => out.ret = "Invalid"

\* C8 (amended): Torus::new(0, 2).kind() is Horn (minor_radius ==
\* major_radius == 1); Torus::new(inner, outer).kind() is Invalid whenever
\* inner == outer or inner > outer.  Construction never fails.
C8_KindOfNew ==
  /\ (call = "Torus::new") => DOMAIN out.self = {"minor_radius", "major_radius"}
  /\ (call = "kind" /\ out.via = "new")
       => /\ (Eq(in.a, F0) /\ Eq(in.b, F2)) => out.ret = "Horn"
          /\ (Eq(in.a, in.b) \/ Gt(in.a, in.b)) => out.ret = "Invalid"

C8_Witness ==
  /\ call = "kind" /\ out.via = "new"
  /\ Gt(in.a, in.b) /\ is_finite(in.a) /\ is_finite(in.b)
  /\ IsZero(out.self.minor_radius)
  /\ out.ret = "Invalid"

\* C10 as stated: for all finite inner and outer, inner_radius() == inner and
\* outer_radius() == outer, minor_radius == (outer - inner)/2 and
\* major_radius == (outer + inner)/2.
C10_AsStated ==
  (call \in {"inner_radius", "outer_radius"} /\ is_finite(in.a) /\ is_finite(in.b))
    => /\ call = "inner_radius" => Eq(out.ret, in.a)
       /\ call = "outer_radius" => Eq(out.ret, in.b)
       /\ Eq(out.self.minor_radius, Div(Sub(in.b, in.a), F2))
       /\ Eq(out.self.major_radius, Div(Add(in.b, in.a), F2))

\* x - y and x / 2 computed without rounding error
ExactSub(x, y) ==
  /\ is_finite(x) /\ is_finite(y) /\ is_finite(Sub(x, y))
  /\ Val(Sub(x, y)) = Val(x) - Val(y)
ExactHalf(x) == is_finite(x) /\ 2 * Val(Div(x, F2)) = Val(x)
ExactNew(inner, outer) ==
  /\ ExactSub(outer, inner)
  /\ ExactHalf(Sub(outer, inner))
  /\ ExactSub(outer, Div(Sub(outer, inner), F2))

\* C10 (amended): minor_radius is the computed (outer - inner)/2 and
\* major_radius the computed outer - minor_radius, for all inputs; whenever
\* these three operations are exact (no rounding, no overflow) for finite inner
\* and outer, of any sign and order, major_radius is (outer + inner)/2,
\* inner_radius() == inner and outer_radius() == outer.
C10_RadiiRoundTrip ==
  (call \in {"Torus::new", "inner_radius", "outer_radius"})
    => /\ out.self.minor_radius = Div(Sub(in.b, in.a), F2)
       /\ out.self.major_radius = Sub(in.b, Div(Sub(in.b, in.a), F2))
       /\ ExactNew(in.a, in.b)
            => /\ 2 * Val(out.self.major_radius) = Val(in.b) + Val(in.a)
               /\ call = "inner_radius" => Eq(out.ret, in.a)
               /\ call = "outer_radius" => Eq(out.ret, in.b)

C10_Witness ==
  /\ call = "inner_radius"
  /\ ExactNew(in.a, in.b)
  /\ Gt(in.a, in.b) /\ Lt(in.b, F0) /\ Gt(in.a, F0)
  /\ Eq(out.ret, in.a)
====
